---- MODULE Spec2Model ----
(***************************************************************************)
(* Model of the include_bytes! procedural macro (src/src/lib.rs).          *)
(*                                                                         *)
(* One invocation is a sequential run: the argument text is trimmed and    *)
(* parsed (Input::parse, Type::parse), the file is opened, and the read    *)
(* loop streams the file through a fixed window, handing the window to     *)
(* Type::write_bytes and carrying the unconsumed tail over to the next     *)
(* read.  The run ends with the literal, a compile_error! diagnostic or a  *)
(* panic.                                                                  *)
(*                                                                         *)
(* Text is a sequence of one-character strings.  A byte is a number in     *)
(* 0..255.  An integer wider than a byte is kept as its base-256 digits,   *)
(* most significant first, so that 128-bit values stay exact.              *)
(***************************************************************************)
EXTENDS Integers, Sequences, FiniteSets

\* ---------------------------------------------------------------- bounds

\* Capacity of the read window.  The source uses 4096 (lib.rs:299); the
\* model scales it down, keeping it above the widest primitive (16 bytes).
BufCap == 20
\* Longest file the environment offers.
MaxFileLen == 33
\* Largest array count among the well-formed array requests.
MaxCount == 3

\* ------------------------------------------------------------ text helpers

Q == "\""
BS == "\\"
SP == " "

IsWhitespace(c) == c = SP

RECURSIVE TrimStart(_)
TrimStart(s) ==
    IF s = <<>> THEN s
    ELSE IF IsWhitespace(Head(s)) THEN TrimStart(Tail(s)) ELSE s

RECURSIVE TrimEnd(_)
TrimEnd(s) ==
    IF s = <<>> THEN s
    ELSE IF IsWhitespace(s[Len(s)]) THEN TrimEnd(SubSeq(s, 1, Len(s) - 1)) ELSE s

\* str::trim
Trim(s) == TrimEnd(TrimStart(s))

\* str::find(char): 1-based index of the first occurrence, 0 for None
Find(s, c) ==
    IF \E i \in 1..Len(s) : s[i] = c
    THEN CHOOSE i \in 1..Len(s) : s[i] = c /\ \A j \in 1..(i - 1) : s[j] # c
    ELSE 0

\* index of the first whitespace of s, Len(s) + 1 if there is none
FirstWs(s) ==
    IF \E i \in 1..Len(s) : IsWhitespace(s[i])
    THEN CHOOSE i \in 1..Len(s) :
            IsWhitespace(s[i]) /\ \A j \in 1..(i - 1) : ~IsWhitespace(s[j])
    ELSE Len(s) + 1

\* str::split_whitespace, collected: the non-empty maximal whitespace-free runs
RECURSIVE SplitWhitespace(_)
SplitWhitespace(s) ==
    LET t == TrimStart(s) IN
    IF t = <<>> THEN <<>>
    ELSE LET e == FirstWs(t) IN
         <<SubSeq(t, 1, e - 1)>> \o SplitWhitespace(SubSeq(t, e, Len(t)))

\* str::split(char), collected: pieces between the separators, empty ones kept
RECURSIVE Split(_, _)
Split(s, c) ==
    LET i == Find(s, c) IN
    IF i = 0 THEN <<s>>
    ELSE <<SubSeq(s, 1, i - 1)>> \o Split(SubSeq(s, i + 1, Len(s)), c)

\* the fold of Input::parse: the parts pushed onto one String, no separator
RECURSIVE Concat(_)
Concat(parts) ==
    IF parts = <<>> THEN <<>> ELSE Head(parts) \o Concat(Tail(parts))

\* ------------------------------------------------------ diagnostic messages

\* A message is the sequence of the pieces its format string puts together:
\* literal pieces of the format string and the displayed arguments.
Lit(s) == [k |-> "lit", v |-> s]
Txt(t) == [k |-> "txt", v |-> t]
Num(n) == [k |-> "num", v |-> n]
Typ(t) == [k |-> "typ", v |-> t]
OsErr == [k |-> "oserr", v |-> 0]

NoType == [kind |-> "None", prim |-> "", size |-> 0]

\* what the invocation returns
Pending == [tag |-> "pending", msg |-> <<>>, tokens |-> <<>>]
Panicked == [tag |-> "panic", msg |-> <<>>, tokens |-> <<>>]
Literal(tokens) == [tag |-> "literal", msg |-> <<>>, tokens |-> tokens]
\* core::compile_error!("<text>")
compile_error(text) == [tag |-> "compile_error", msg |-> text, tokens |-> <<>>]

\* ------------------------------------------------------------- Primitive

Primitives == {"u8", "u16", "u32", "u64", "u128"}

PrimitiveSize(p) ==
    CASE p = "u8" -> 1
      [] p = "u16" -> 2
      [] p = "u32" -> 4
      [] p = "u64" -> 8
      [] p = "u128" -> 16

\* the keyword of a primitive as text, and the match arms that recognise it
PrimitiveText(p) ==
    CASE p = "u8" -> <<"u", "8">>
      [] p = "u16" -> <<"u", "1", "6">>
      [] p = "u32" -> <<"u", "3", "2">>
      [] p = "u64" -> <<"u", "6", "4">>
      [] p = "u128" -> <<"u", "1", "2", "8">>

IsPrimitiveText(t) == \E p \in Primitives : PrimitiveText(p) = t
PrimitiveOfText(t) == CHOOSE p \in Primitives : PrimitiveText(p) = t

PrimitiveType(p) == [kind |-> "Primitive", prim |-> p, size |-> 0]
ArrayType(p, n) == [kind |-> "Array", prim |-> p, size |-> n]

\* ------------------------------------------------------------ usize parse

DigitChars == <<"0", "1", "2", "3", "4", "5", "6", "7", "8", "9">>
IsDigit(c) == \E d \in 1..10 : DigitChars[d] = c
DigitVal(c) == (CHOOSE d \in 1..10 : DigitChars[d] = c) - 1

RECURSIVE DigitsVal(_, _)
DigitsVal(s, acc) ==
    IF s = <<>> THEN acc ELSE DigitsVal(Tail(s), acc * 10 + DigitVal(Head(s)))

\* <usize as FromStr>::from_str: an optional '+', then one or more decimal
\* digits.  The texts the model offers stay far below usize::MAX, so the
\* overflow arm is not reached.
ParseUsize(s) ==
    LET d == IF s # <<>> /\ Head(s) = "+" THEN Tail(s) ELSE s IN
    IF d # <<>> /\ \A i \in 1..Len(d) : IsDigit(d[i])
    THEN [ok |-> TRUE, val |-> DigitsVal(d, 0)]
    ELSE [ok |-> FALSE, val |-> 0]

\* ------------------------------------------------------------ Type::parse

TypeOk(t) == [ok |-> TRUE, typ |-> t, err |-> <<>>]
TypeErr(text) == [ok |-> FALSE, typ |-> NoType, err |-> text]

\* mutant: the match without its Ok(0) arm
ParseArraySizeNoZeroArm(other, arr_type, arr_size) ==
    LET n == ParseUsize(arr_size) IN
    IF n.ok
    THEN TypeOk(ArrayType(arr_type, n.val))
    ELSE TypeErr(<<Lit("'as' array expression '"), Txt(other),
                   Lit("' has invalid size: "), Lit("ParseIntError")>>)

\* the innermost match of Type::parse: arr_size.parse()
ParseArraySize(other, arr_type, arr_size) ==
    LET n == ParseUsize(arr_size) IN
    IF n.ok /\ n.val = 0
    THEN TypeErr(<<Lit("'as' array expression '"), Txt(other),
                   Lit("' has zero size, which makes no sense")>>)
    ELSE IF n.ok
    THEN TypeOk(ArrayType(arr_type, n.val))
    ELSE TypeErr(<<Lit("'as' array expression '"), Txt(other),
                   Lit("' has invalid size: "), Lit("ParseIntError")>>)

\* the body of the two strip_ branches: arg is the text between the brackets
ParseArrayExpr(other, arg) ==
    LET arg_split == Split(arg, ";")
        arr_type == arg_split[1]
    IN
    IF Len(arg_split) < 2
    THEN TypeErr(<<Lit("'as' array expression '"), Txt(other),
                   Lit("' is missing size")>>)
    ELSE IF Len(arg_split) > 2
    THEN TypeErr(<<Lit("'as' array expression '"), Txt(other),
                   Lit("' has superfluous ';'")>>)
    ELSE IF ~IsPrimitiveText(arr_type)
    THEN TypeErr(<<Lit("'as' array expression '"), Txt(other),
                   Lit("' has invalid type '"), Txt(arr_type), Lit("'")>>)
    ELSE ParseArraySize(other, PrimitiveOfText(arr_type), arg_split[2])

TypeParse(input) ==
    IF input = <<>>
    THEN TypeErr(<<Lit("'as' is missing type")>>)
    ELSE IF IsPrimitiveText(input)
    THEN TypeOk(PrimitiveType(PrimitiveOfText(input)))
    ELSE IF Head(input) = "["
    THEN LET arg == Tail(input) IN
         IF arg # <<>> /\ arg[Len(arg)] = "]"
         THEN ParseArrayExpr(input, SubSeq(arg, 1, Len(arg) - 1))
         ELSE TypeErr(<<Lit("'as' array expression '"), Txt(input),
                        Lit("' is missing closing brackets")>>)
    ELSE TypeErr(<<Lit("'as' specifies unsupported type '"), Txt(input), Lit("'")>>)

\* ----------------------------------------------------------- Input::parse

ParseOk(file, rest, typ) ==
    [tag |-> "ok", file |-> file, rest |-> rest, typ |-> typ, err |-> <<>>]
ParseErr(file, rest, text) ==
    [tag |-> "err", file |-> file, rest |-> rest, typ |-> NoType, err |-> text]
ParsePanic ==
    [tag |-> "panic", file |-> <<>>, rest |-> <<>>, typ |-> NoType, err |-> <<>>]

\* the second half of Input::parse: the text after the path gives the type
ParseAsClause(file, rest) ==
    LET split == SplitWhitespace(Trim(rest)) IN
    IF split = <<>>
    THEN ParseOk(file, rest, PrimitiveType("u8"))
    ELSE IF Head(split) = <<"a", "s">>
    THEN LET t == TypeParse(Trim(Concat(Tail(split)))) IN
         IF t.ok THEN ParseOk(file, rest, t.typ) ELSE ParseErr(file, rest, t.err)
    ELSE ParseErr(file, rest,
                  <<Lit("Unsupported syntax after file name '"), Txt(Head(split)),
                    Lit("'")>>)

\* the path of a quoted argument ends at the first '"' that find() meets
QuotedPathEnd(input) == Find(input, Q)

InputParse(input) ==
    IF input # <<>> /\ Head(input) = Q
    THEN LET inner == Tail(input)
             end_file_idx == QuotedPathEnd(inner)
         IN
         IF end_file_idx = 0
         THEN ParseErr(<<>>, <<>>, <<Lit("Missing '\"' at the end of file path")>>)
         ELSE ParseAsClause(SubSeq(inner, 1, end_file_idx - 1),
                            SubSeq(inner, end_file_idx + 1, Len(inner)))
    ELSE LET split == SplitWhitespace(input) IN
         IF split = <<>>
         THEN ParsePanic  \* split.next().unwrap() on None
         ELSE ParseAsClause(Head(split),
                            SubSeq(input, Len(Head(split)) + 1, Len(input)))

\* ------------------------------------------------------------ write_bytes

VARIABLES
    input,      \* the argument text of the invocation (input.to_string())
    endian,     \* byte order of the build target: "little" or "big"
    pc,         \* position in include_bytes: "start", "parsed", "loop", "done"
    args_file,  \* args.file
    args_rest,  \* the text Input::parse found after the path
    args_typ,   \* args.typ
    file,       \* content of the opened file
    pos,        \* read offset of the file handle
    cursor,     \* cursor
    file_len,   \* file_len
    buf,        \* buf[..cursor], the carried-over bytes of the window
    result,     \* result, as the sequence of tokens pushed so far
    consumed,   \* sum of the values write_bytes returned (history)
    ret         \* what the invocation returned

vars == <<input, endian, pc, args_file, args_rest, args_typ, file, pos, cursor,
          file_len, buf, result, consumed, ret>>

Reverse(s) == [i \in 1..Len(s) |-> s[Len(s) + 1 - i]]

\* mutant: from_be_bytes in place of from_ne_bytes
from_be_bytes(chunk) == chunk

\* uN::from_ne_bytes: the value, as base-256 digits most significant first
from_ne_bytes(chunk) == IF endian = "little" THEN Reverse(chunk) ELSE chunk

HexChars == <<"0", "1", "2", "3", "4", "5", "6", "7", "8", "9",
              "a", "b", "c", "d", "e", "f">>

\* mutant: the two digits of each byte in the wrong order
NibblesSwapped(v) ==
    [i \in 1..(2 * Len(v)) |->
        IF i % 2 = 1 THEN v[(i + 1) \div 2] % 16 ELSE v[i \div 2] \div 16]

\* the base-16 digits of a value, two for each base-256 digit
Nibbles(v) ==
    [i \in 1..(2 * Len(v)) |->
        IF i % 2 = 1 THEN v[(i + 1) \div 2] \div 16 ELSE v[i \div 2] % 16]

RECURSIVE StripLeadingZeros(_)
StripLeadingZeros(d) ==
    IF Len(d) > 1 /\ Head(d) = 0 THEN StripLeadingZeros(Tail(d)) ELSE d

\* format_args!("{:x}"): lower-case hex, no leading zeros, "0" for zero
FormatHex(v) ==
    LET d == StripLeadingZeros(Nibbles(v)) IN [i \in 1..Len(d) |-> HexChars[d[i] + 1]]

\* the tokens of the emitted text
OpenBracket == [t |-> "[", hex |-> <<>>, suffix |-> ""]
CloseBracket == [t |-> "]", hex |-> <<>>, suffix |-> ""]
CloseBracketComma == [t |-> "],", hex |-> <<>>, suffix |-> ""]
\* "0x{:x}<suffix>, "
Number(v, p) == [t |-> "0x", hex |-> FormatHex(v), suffix |-> p]

\* slice::chunks_exact(n): the i-th chunk, and how many there are
Chunk(bytes, n, i) == SubSeq(bytes, (i - 1) * n + 1, i * n)
NumChunks(bytes, n) == Len(bytes) \div n

\* Primitive::write_bytes
PrimitiveWriteBytes(p, bytes) ==
    LET n == PrimitiveSize(p)
        k == NumChunks(bytes, n)
    IN [out |-> [i \in 1..k |-> Number(from_ne_bytes(Chunk(bytes, n, i)), p)],
        written |-> k * n,
        panic |-> FALSE]

RECURSIVE SumWritten(_)
SumWritten(ws) == IF ws = <<>> THEN 0 ELSE Head(ws) + SumWritten(Tail(ws))

\* Type::write_bytes
TypeWriteBytes(typ, bytes) ==
    IF typ.kind = "Primitive"
    THEN PrimitiveWriteBytes(typ.prim, bytes)
    ELSE LET required_size == PrimitiveSize(typ.prim) * typ.size IN
         IF required_size > Len(bytes)
         THEN [out |-> <<>>, written |-> 0, panic |-> FALSE]
         ELSE IF required_size = 0
         THEN [out |-> <<>>, written |-> 0, panic |-> TRUE]  \* chunks_exact(0)
         ELSE LET k == NumChunks(bytes, required_size)
                  sub(i) == PrimitiveWriteBytes(typ.prim, Chunk(bytes, required_size, i))
              IN [out |-> Concat([i \in 1..k |->
                                    <<OpenBracket>> \o sub(i).out \o <<CloseBracketComma>>]),
                  written |-> SumWritten([i \in 1..k |-> sub(i).written]),
                  panic |-> FALSE]

\* ------------------------------------------------------------ environment

Min(a, b) == IF a < b THEN a ELSE b

\* The files on offer: every length up to MaxFileLen, the bytes running from
\* 250 in steps of 3 modulo 256, so that neighbouring bytes differ and high
\* bytes, a wrap-around and a zero byte occur; and a few all-zero files.
MkFile(n, base, step) == [i \in 1..n |-> (base + (i - 1) * step) % 256]
Files ==
    {MkFile(n, 250, 3) : n \in 0..MaxFileLen}
    \cup {MkFile(n, 0, 0) : n \in {1, 2, 4, 8, 16}}

\* decimal text of a small number
Dec(n) ==
    IF n < 10 THEN <<DigitChars[n + 1]>>
    ELSE <<DigitChars[(n \div 10) + 1], DigitChars[(n % 10) + 1]>>

As == <<"a", "s">>
AsPrim(p) == As \o <<SP>> \o PrimitiveText(p)
AsArr(elem, size) == As \o <<SP, "[">> \o elem \o <<";", SP>> \o size \o <<"]">>

QuotedPath == <<Q, "a", SP, "b", Q>>

PathParts ==
    { <<>>,
      <<Q, Q>>,
      QuotedPath,
      <<Q, "a", BS, Q, "b", Q>>,
      <<Q, "a">>,
      <<"a">> }

ZeroSizes == {<<"0">>, <<"0", "0">>, <<"+", "0">>}
ZeroArrayClauses == {AsArr(PrimitiveText(p), z) : p \in Primitives, z \in ZeroSizes}

AsParts ==
    { <<>>, As, <<"x">>, As \o <<SP, "f", "3", "2">>,
      AsPrim("u8") \o <<SP, "x">>,
      AsArr(<<"i", "8">>, <<"2">>),
      AsArr(<<"u", "8">>, <<"x">>),
      AsArr(<<"u", "8">>, <<>>),
      AsArr(<<"u", "8">>, <<"-", "1">>),
      AsArr(<<"u", "8">>, <<"1", ";", "2">>),
      As \o <<SP, "[", "u", "8", "]">>,
      As \o <<SP, "[", "u", "8", ";", SP, "2">> }
    \cup {AsPrim(p) : p \in Primitives}
    \cup {AsArr(PrimitiveText(p), Dec(n)) : p \in Primitives, n \in 1..MaxCount}
    \cup ZeroArrayClauses

\* the clauses tried after every form of path
FewAsParts == { <<>>, <<"x">>, AsPrim("u16"), AsArr(<<"u", "8">>, <<"0">>) }

Inputs ==
    {QuotedPath \o <<SP>> \o a : a \in AsParts}
    \cup {p \o <<SP>> \o a : p \in PathParts, a \in FewAsParts}
    \cup { <<>>,
           <<Q, "a", Q>> \o AsPrim("u16"),
           <<SP, SP, Q, "a", Q, SP, SP>> \o As \o <<SP, SP, "u", SP, "1", "6", SP>> }

\* --------------------------------------------------------- include_bytes

Init ==
    /\ input \in Inputs
    /\ endian \in {"little", "big"}
    /\ pc = "start"
    /\ args_file = <<>>
    /\ args_rest = <<>>
    /\ args_typ = NoType
    /\ file = <<>>
    /\ pos = 0
    /\ cursor = 0
    /\ file_len = 0
    /\ buf = <<>>
    /\ result = <<>>
    /\ consumed = 0
    /\ ret = Pending

\* a return from include_bytes: the handle and the locals of the loop are dropped
Return(r) ==
    /\ pc' = "done"
    /\ ret' = r
    /\ pos' = 0
    /\ cursor' = 0
    /\ file_len' = 0
    /\ buf' = <<>>
    /\ result' = <<>>
    /\ consumed' = 0

\* input.to_string(), input.trim(), Input::parse(input)
ParseInput ==
    /\ pc = "start"
    /\ LET r == InputParse(Trim(input)) IN
       /\ args_file' = r.file
       /\ args_rest' = r.rest
       /\ args_typ' = r.typ
       /\ IF r.tag = "panic" THEN Return(Panicked)
          ELSE IF r.tag = "err" THEN Return(compile_error(r.err))
          ELSE /\ pc' = "parsed"
               /\ UNCHANGED <<ret, pos, cursor, file_len, buf, result, consumed>>
    /\ UNCHANGED <<input, endian, file>>

\* if args.file.is_empty()
EmptyFileName ==
    /\ pc = "parsed"
    /\ args_file = <<>>
    /\ Return(compile_error(<<Lit("Empty file name")>>))
    /\ UNCHANGED <<input, endian, args_file, args_rest, args_typ, file>>

\* File::open(args.file) fails
OpenFails ==
    /\ pc = "parsed"
    /\ args_file # <<>>
    /\ Return(compile_error(<<Txt(args_file), Lit(": Cannot open file: "), OsErr>>))
    /\ UNCHANGED <<input, endian, args_file, args_rest, args_typ, file>>

\* File::open(args.file) succeeds; cursor, file_len, buf and result are set up
OpenFile ==
    /\ pc = "parsed"
    /\ args_file # <<>>
    /\ \E f \in Files : file' = f
    /\ pc' = "loop"
    /\ pos' = 0
    /\ cursor' = 0
    /\ file_len' = 0
    /\ buf' = <<>>
    /\ result' = <<OpenBracket>>
    /\ consumed' = 0
    /\ UNCHANGED <<input, endian, args_file, args_rest, args_typ, ret>>

\* mutant: the copy without .add(written) on its source
PtrCopyFromStart(window, written, count) == SubSeq(window, 1, count)

\* core::ptr::copy(buf.as_ptr().add(written), buf.as_mut_ptr(), count): the
\* count bytes from offset written, moved to the front of the window
PtrCopy(window, written, count) == SubSeq(window, written + 1, written + count)

\* the Ok(size) arm: read() put size bytes at buf[cursor..]
ReadSome ==
    /\ pc = "loop"
    /\ \E size \in 1..Min(BufCap - cursor, Len(file) - pos) :
         LET buf_len == cursor + size
             window == buf \o SubSeq(file, pos + 1, pos + size)
             w == TypeWriteBytes(args_typ, window)
         IN
         IF w.panic
         THEN Return(Panicked)
         ELSE /\ pos' = pos + size
              /\ file_len' = file_len + size
              /\ result' = result \o w.out
              /\ consumed' = consumed + w.written
              /\ IF w.written > 0
                 THEN /\ buf' = PtrCopy(window, w.written, buf_len - w.written)
                      /\ cursor' = buf_len - w.written
                 ELSE /\ buf' = window
                      /\ cursor' = buf_len
              /\ UNCHANGED <<pc, ret>>
    /\ UNCHANGED <<input, endian, args_file, args_rest, args_typ, file>>

\* mutant: the Ok(0) arm without the cursor test
EndOfInputUnchecked == Literal(result \o <<CloseBracket>>)

\* what the Ok(0) arm returns: result.push(']'), then the cursor test
EndOfInput ==
    IF cursor # 0
    THEN compile_error(<<Lit("File input with size "), Num(file_len),
                         Lit("b cannot be reinterpret as "), Typ(args_typ)>>)
    ELSE Literal(result \o <<CloseBracket>>)

\* the Ok(0) arm: read() returns 0 at the end of the file, and for the empty
\* slice buf[cursor..] once cursor has reached the capacity of the window
ReadZero ==
    /\ pc = "loop"
    /\ pos = Len(file) \/ cursor = BufCap
    /\ Return(EndOfInput)
    /\ UNCHANGED <<input, endian, args_file, args_rest, args_typ, file>>

\* the Err(error) arm
ReadErr ==
    /\ pc = "loop"
    /\ Return(compile_error(<<Txt(args_file), Lit(": Error reading file: "), OsErr>>))
    /\ UNCHANGED <<input, endian, args_file, args_rest, args_typ, file>>

Next ==
    \/ ParseInput
    \/ EmptyFileName
    \/ OpenFails
    \/ OpenFile
    \/ ReadSome
    \/ ReadZero
    \/ ReadErr

Spec == Init /\ [][Next]_vars

\* ================================================================ claims

\* ----------------------------------------------- reading the result back

IsHexChar(c) == \E d \in 1..16 : HexChars[d] = c
HexDigitVal(c) == (CHOOSE d \in 1..16 : HexChars[d] = c) - 1

\* a number token of primitive p that the compiler accepts
WellFormedNumber(tok, p) ==
    /\ tok.t = "0x"
    /\ tok.suffix = p
    /\ Len(tok.hex) >= 1
    /\ Len(tok.hex) <= 2 * PrimitiveSize(p)
    /\ \A i \in 1..Len(tok.hex) : IsHexChar(tok.hex[i])

\* the bytes the value of a number token has in the memory of the target
MemoryBytes(tok, p) ==
    LET n == PrimitiveSize(p)
        pad == 2 * n - Len(tok.hex)
        nib(i) == IF i <= pad THEN 0 ELSE HexDigitVal(tok.hex[i - pad])
        msb == [j \in 1..n |-> nib(2 * j - 1) * 16 + nib(2 * j)]
    IN IF endian = "little" THEN [j \in 1..n |-> msb[n + 1 - j]] ELSE msb

\* the i-th token is a number of primitive p whose memory is the given bytes
NumberIs(tokens, i, p, bytes) ==
    /\ i <= Len(tokens)
    /\ WellFormedNumber(tokens[i], p)
    /\ MemoryBytes(tokens[i], p) = bytes

GroupSize(typ) ==
    IF typ.kind = "Array" THEN PrimitiveSize(typ.prim) * typ.size
    ELSE PrimitiveSize(typ.prim)

IsSizeMismatch(r) ==
    /\ r.tag = "compile_error"
    /\ Len(r.msg) = 4
    /\ r.msg[1] = Lit("File input with size ")
IsOpenError(r) ==
    /\ r.tag = "compile_error"
    /\ Len(r.msg) = 3
    /\ r.msg[2] = Lit(": Cannot open file: ")
IsReadError(r) ==
    /\ r.tag = "compile_error"
    /\ Len(r.msg) = 3
    /\ r.msg[2] = Lit(": Error reading file: ")
IsEmptyFilePath(r) == r = compile_error(<<Lit("Empty file name")>>)

\* the invocation has ended, its arguments parsed to a request with a path,
\* and the file system has failed neither the open nor a read
Streamed ==
    /\ pc = "done"
    /\ args_typ.kind # "None"
    /\ args_file # <<>>
    /\ ~IsOpenError(ret)
    /\ ~IsReadError(ret)

\* a flat literal: "[", one number of primitive p for each chunk of the file, "]"
FlatLiteralOf(tokens, p) ==
    LET n == PrimitiveSize(p)
        k == Len(file) \div n
    IN /\ Len(tokens) = k + 2
       /\ tokens[1] = OpenBracket
       /\ tokens[k + 2] = CloseBracket
       /\ \A i \in 1..k : NumberIs(tokens, i + 1, p, Chunk(file, n, i))

\* C1: with no 'as' clause or 'as u8', whatever the file holds (the empty
\* file too) and however its bytes are split over the reads, the invocation
\* returns the literal whose elements are exactly the bytes of the file in
\* file order; for the empty file that is the empty array literal.
C1_RoundTrip ==
    (Streamed /\ args_typ = PrimitiveType("u8"))
        => /\ ret.tag = "literal"
           /\ FlatLiteralOf(ret.tokens, "u8")
           /\ Len(ret.tokens) = Len(file) + 2

\* an 8-bit request on the longest file returned its literal
C1_Witness ==
    /\ pc = "done"
    /\ args_typ = PrimitiveType("u8")
    /\ ret.tag = "literal"
    /\ Len(ret.tokens) = MaxFileLen + 2

\* an 8-bit request on the empty file returned "[" "]"
C1_WitnessEmpty ==
    /\ pc = "done"
    /\ args_typ = PrimitiveType("u8")
    /\ file = <<>>
    /\ ret = Literal(<<OpenBracket, CloseBracket>>)

\* C2: for a primitive of 16, 32, 64 or 128 bits and a file whose length is
\* a multiple of the element size, however the bytes are split over the
\* reads, the literal has file_length / size elements and the i-th has the
\* native-byte-order value of the i-th size-byte range of the file.
C2_WidthConsistency ==
    (/\ Streamed
     /\ args_typ.kind = "Primitive"
     /\ args_typ.prim # "u8"
     /\ Len(file) % PrimitiveSize(args_typ.prim) = 0)
        => /\ ret.tag = "literal"
           /\ FlatLiteralOf(ret.tokens, args_typ.prim)

\* a 128-bit request returned two elements
C2_Witness ==
    /\ pc = "done"
    /\ args_typ = PrimitiveType("u128")
    /\ ret.tag = "literal"
    /\ Len(ret.tokens) = 4
    /\ Len(file) = 32

\* C3: when the file length is not a multiple of the element size (primitive
\* request) or of the group size (array request), the invocation ends with
\* the size-mismatch diagnostic, however the bytes are split over the reads;
\* no literal is returned.
C3_ExactDivisibility ==
    (Streamed /\ Len(file) % GroupSize(args_typ) # 0) => IsSizeMismatch(ret)

\* an array request failed on a file holding a full group and a partial one
C3_Witness ==
    /\ pc = "done"
    /\ args_typ.kind = "Array"
    /\ Len(file) > GroupSize(args_typ)
    /\ Len(file) % GroupSize(args_typ) # 0
    /\ IsSizeMismatch(ret)

\* a nested literal: "[", then for each group of the file "[", count numbers
\* and "],", then "]"
NestedLiteralOf(tokens, p, count) ==
    LET n == PrimitiveSize(p)
        g == n * count
        k == Len(file) \div g
        at(j) == 1 + (j - 1) * (count + 2)   \* the token before the j-th sub-array
    IN /\ Len(tokens) = k * (count + 2) + 2
       /\ tokens[1] = OpenBracket
       /\ tokens[Len(tokens)] = CloseBracket
       /\ \A j \in 1..k :
            /\ tokens[at(j) + 1] = OpenBracket
            /\ tokens[at(j) + count + 2] = CloseBracketComma
            /\ \A i \in 1..count :
                 NumberIs(tokens, at(j) + 1 + i, p, Chunk(Chunk(file, g, j), n, i))

\* C4: for an array request of count N over elements of W bits and a file
\* whose length is a multiple of the group size N*W/8, the literal has
\* file_length / (N*W/8) sub-arrays of exactly N elements each, for every N,
\* the counts whose group is larger than the read window included.
C4_ArrayShape ==
    (/\ Streamed
     /\ args_typ.kind = "Array"
     /\ Len(file) % GroupSize(args_typ) = 0)
        => /\ ret.tag = "literal"
           /\ NestedLiteralOf(ret.tokens, args_typ.prim, args_typ.size)

\* C5: whatever the argument text (empty, blank and "" included), the
\* invocation ends with the finished literal or with a diagnostic that carries
\* a message, never with a panic; an empty path gives the empty-path
\* diagnostic.
C5_AlwaysDiagnostic ==
    pc = "done"
        => /\ \/ ret.tag = "literal"
              \/ ret.tag = "compile_error" /\ ret.msg # <<>>
           /\ (args_typ.kind # "None" /\ args_file = <<>>) => IsEmptyFilePath(ret)

\* text r occurs in a message
ContainsText(msg, r) == \E i \in 1..Len(msg) : msg[i] = Txt(r)

\* C6: every failure after the path was parsed (open failure, read failure,
\* size mismatch) gives a diagnostic whose message contains the file path.
C6_MessageNamesFile ==
    (/\ pc = "done"
     /\ args_typ.kind # "None"
     /\ args_file # <<>>
     /\ ret.tag = "compile_error")
        => ContainsText(ret.msg, args_file)

\* the argument texts whose 'as' clause is an array expression of count 0
ZeroCountInputs ==
    {i \in Inputs : \E p \in PathParts, z \in ZeroArrayClauses : i = p \o <<SP>> \o z}

IsZeroSizeError(r) ==
    /\ r.tag = "compile_error"
    /\ Len(r.msg) = 3
    /\ r.msg[3] = Lit("' has zero size, which makes no sense")

\* C7: an 'as' array expression of count 0 is rejected by the argument
\* parser: the invocation goes from the parse straight to a diagnostic, no
\* file is opened or read, whatever the path and whatever the files hold; after
\* a well-formed path the diagnostic is the zero-size one.
C7_ZeroSizeRejected ==
    (input \in ZeroCountInputs /\ pc # "start")
        => /\ pc = "done"
           /\ ret.tag = "compile_error"
           /\ file = <<>>
           /\ (\E z \in ZeroArrayClauses : input = QuotedPath \o <<SP>> \o z)
                 => IsZeroSizeError(ret)

\* a count written "+0" after a quoted path was rejected with the zero-size message
C7_Witness ==
    /\ pc = "done"
    /\ input = QuotedPath \o <<SP>> \o AsArr(<<"u", "6", "4">>, <<"+", "0">>)
    /\ IsZeroSizeError(ret)

\* index of the first '"' of s at or after i that no backslash escapes, 0 if none
RECURSIVE UnescapedQuote(_, _)
UnescapedQuote(s, i) ==
    IF i > Len(s) THEN 0
    ELSE IF s[i] = BS THEN UnescapedQuote(s, i + 2)
    ELSE IF s[i] = Q THEN i
    ELSE UnescapedQuote(s, i + 1)

\* C8: a path that starts with '"' runs to the next unescaped '"' (it may
\* hold whitespace, and an escaped quote does not end it); any other path is
\* the first whitespace-delimited token; the text after the path is what the
\* 'as' clause is parsed from.
C8_PathExtraction ==
    LET t == Trim(input) IN
    (pc # "start" /\ t # <<>>)
        => IF Head(t) = Q
           THEN LET e == UnescapedQuote(Tail(t), 1) IN
                e # 0 => /\ args_file = SubSeq(Tail(t), 1, e - 1)
                         /\ args_rest = SubSeq(Tail(t), e + 1, Len(t) - 1)
           ELSE /\ args_file = SubSeq(t, 1, FirstWs(t) - 1)
                /\ args_rest = SubSeq(t, FirstWs(t), Len(t))

\* C9: after every read cycle, whatever the sizes of the reads: the tokens
\* emitted so far are "[" and the tokens of the first consumed bytes of the
\* file, the window holds in its first cursor bytes the file bytes from
\* consumed up to the read offset, in order, and consumed + cursor is the
\* number of bytes read.
C9_CarryOver ==
    pc = "loop"
        => /\ result = <<OpenBracket>> \o TypeWriteBytes(args_typ, SubSeq(file, 1, consumed)).out
           /\ buf = SubSeq(file, consumed + 1, pos)
           /\ cursor = Len(buf)
           /\ consumed + cursor = pos
           /\ file_len = pos

\* a cycle emitted tokens and carried the head of the next element over
C9_Witness ==
    /\ pc = "loop"
    /\ consumed > 0
    /\ cursor > 1
    /\ Len(result) > 2

\* C10: the window capacity is enforced to be at least the group size of
\* every accepted type, so the loop never sits on a full window that holds no
\* complete group: while bytes of the file remain, the window has room for
\* the next read.
C10_WindowEnforced == (pc = "loop" /\ pos < Len(file)) => cursor < BufCap

====
